---- MODULE Spec2Model ----
(***************************************************************************)
(* Two control loops of redbeardster/k8soperator:                          *)
(*   - the pod healer (main.go): an informer delivers Added/Updated pod    *)
(*     notifications to handlePod, which classifies the pod (isPodStuck)   *)
(*     and deletes it when stuck (healPod);                                *)
(*   - the NginxDeployment reconciler (nginx-operator controller):         *)
(*     Reconcile -> reconcileDeployment -> reconcileService ->             *)
(*     updateStatus, each a sequence of calls against the API server.      *)
(* Time is counted in minutes.                                             *)
(***************************************************************************)
EXTENDS Integers, Sequences, FiniteSets, TLC

VARIABLES
    now,      \* the wall clock read by time.Since
    pod,      \* the watched pod as stored by the API server, or NoPod
    event,    \* the notification the informer has in flight, or NoEvent
    last,     \* what the handler run that has just returned did, or NoResult
    run,      \* PodHealer.Run: its position and the stop channel it made
    parent,      \* the NginxDeployment held by the API server, or NoParent
    deployment,  \* the Deployment stored under <parent>-deployment, or NoChild
    service,     \* the Service stored under <parent>-service, or NoChild
    rec          \* per Reconcile worker: its position, locals and calls

hvars == <<now, pod, event, last, run>>

rvars == <<parent, deployment, service, rec>>

vars == <<now, pod, event, last, run, parent, deployment, service, rec>>

----------------------------------------------------------------------------
(* Program constants of the healer *)

PendingThreshold == 15

RestartThreshold == 10

NotReadyThreshold == 10

IgnoreKey == "healing.kubernetes.io/ignore"

ActionKey == "healing.kubernetes.io/action"

SystemNamespace == "kube-system"

CrashLoopBackOff == "CrashLoopBackOff"

----------------------------------------------------------------------------
(* The pods the environment can present *)

MaxContainers == 2

TimePoints == {0, 5, 15, 16}

Namespaces == {"default", SystemNamespace}

Phases == {"Pending", "Running", "Failed"}

NoWaiting == "<nil>"

WaitingReasons == {NoWaiting, CrashLoopBackOff}

\* the restart counts on either side of the threshold
RestartValues == {RestartThreshold, RestartThreshold + 1}

ConditionStatuses == {"True", "False", "Unknown"}

NoAnnotations == [k \in {} |-> ""]

AnnotationChoices ==
    { NoAnnotations,
      [k \in {IgnoreKey} |-> "true"],
      [k \in {IgnoreKey} |-> "false"],
      [k \in {ActionKey} |-> "restart"],
      [k \in {ActionKey} |-> "delete"],
      [k \in {ActionKey} |-> "ignore"],
      [k \in {ActionKey} |-> "noop"] }

NoPod == [name |-> "<none>"]

NoEvent == [type |-> "<none>"]

NoResult == [handled |-> FALSE]

FreshPods(t) ==
    { [ namespace         |-> ns,
        name              |-> "web",
        phase             |-> "Pending",
        created           |-> t,
        containerStatuses |-> << >>,
        conditions        |-> << >>,
        annotations       |-> a ] : ns \in Namespaces, a \in AnnotationChoices }

ReadyIndex(conds) ==
    IF \E i \in 1..Len(conds) : conds[i].type = "Ready"
    THEN CHOOSE i \in 1..Len(conds) : conds[i].type = "Ready"
    ELSE 0

\* One status write by the kubelet: a phase change, a container status added,
\* a restart count that grows, a waiting state that changes, or the Ready
\* condition changing its status at time t.
StatusSuccessors(p, t) ==
    { [p EXCEPT !.phase = ph] : ph \in Phases \ {p.phase} }
    \cup
    ( IF Len(p.containerStatuses) < MaxContainers
      THEN { [p EXCEPT !.containerStatuses =
                 Append(@, [restartCount |-> RestartThreshold, waiting |-> NoWaiting])] }
      ELSE {} )
    \cup
    UNION { { [p EXCEPT !.containerStatuses[i].restartCount = r] :
                r \in { v \in RestartValues : v > p.containerStatuses[i].restartCount } } :
            i \in 1..Len(p.containerStatuses) }
    \cup
    UNION { { [p EXCEPT !.containerStatuses[i].waiting = w] :
                w \in WaitingReasons \ {p.containerStatuses[i].waiting} } :
            i \in 1..Len(p.containerStatuses) }
    \cup
    ( IF ReadyIndex(p.conditions) = 0
      THEN { [p EXCEPT !.conditions =
                 << [type |-> "PodScheduled", status |-> "True",
                     lastTransitionTime |-> p.created],
                    [type |-> "Ready", status |-> s,
                     lastTransitionTime |-> t] >>] : s \in ConditionStatuses }
      ELSE { [p EXCEPT !.conditions[ReadyIndex(p.conditions)] =
                 [type |-> "Ready", status |-> s, lastTransitionTime |-> t]] :
               s \in ConditionStatuses \ {p.conditions[ReadyIndex(p.conditions)].status} } )

----------------------------------------------------------------------------
(* The healer *)

\* time.Since(ts) at clock t
Since(ts, t) == t - ts

RECURSIVE ContainerLoop(_, _)
\* the range loop over pod.Status.ContainerStatuses, from index i
ContainerLoop(cs, i) ==
    IF i > Len(cs) THEN FALSE
    ELSE IF cs[i].restartCount > RestartThreshold THEN TRUE
    ELSE IF cs[i].waiting # NoWaiting /\ cs[i].waiting = CrashLoopBackOff THEN TRUE
    ELSE ContainerLoop(cs, i + 1)

RECURSIVE ReadyLoop(_, _)
\* isPodReady's range loop over pod.Status.Conditions, from index i
ReadyLoop(conds, i) ==
    IF i > Len(conds) THEN FALSE
    ELSE IF conds[i].type = "Ready" /\ conds[i].status = "True" THEN TRUE
    ELSE ReadyLoop(conds, i + 1)

isPodReady(p) == ReadyLoop(p.conditions, 1)

RECURSIVE NotReadyLoop(_, _, _)
\* isPodStuck's range loop over pod.Status.Conditions, from index i
NotReadyLoop(conds, i, t) ==
    IF i > Len(conds) THEN FALSE
    ELSE IF /\ conds[i].type = "Ready"
            /\ conds[i].status = "False"
            /\ Since(conds[i].lastTransitionTime, t) > NotReadyThreshold
         THEN TRUE
    ELSE NotReadyLoop(conds, i + 1, t)

RECURSIVE ContainerLoopGE(_, _)
\* ContainerLoop with the restart comparison written >= instead of >
ContainerLoopGE(cs, i) ==
    IF i > Len(cs) THEN FALSE
    ELSE IF cs[i].restartCount >= RestartThreshold THEN TRUE
    ELSE IF cs[i].waiting # NoWaiting /\ cs[i].waiting = CrashLoopBackOff THEN TRUE
    ELSE ContainerLoopGE(cs, i + 1)

\* isPodStuck with the restart comparison written >= instead of >
isPodStuck_RestartGE(p, t) ==
    IF p.phase = "Pending" /\ Since(p.created, t) > PendingThreshold THEN TRUE
    ELSE IF p.phase = "Running" /\ ContainerLoopGE(p.containerStatuses, 1) THEN TRUE
    ELSE IF ~isPodReady(p) /\ NotReadyLoop(p.conditions, 1, t) THEN TRUE
    ELSE FALSE

\* isPodStuck with the pending comparison written >= instead of >
isPodStuck_PendingGE(p, t) ==
    IF p.phase = "Pending" /\ Since(p.created, t) >= PendingThreshold THEN TRUE
    ELSE IF p.phase = "Running" /\ ContainerLoop(p.containerStatuses, 1) THEN TRUE
    ELSE IF ~isPodReady(p) /\ NotReadyLoop(p.conditions, 1, t) THEN TRUE
    ELSE FALSE

isPodStuck(p, t) ==
    IF p.phase = "Pending" /\ Since(p.created, t) > PendingThreshold THEN TRUE
    ELSE IF p.phase = "Running" /\ ContainerLoop(p.containerStatuses, 1) THEN TRUE
    ELSE IF ~isPodReady(p) /\ NotReadyLoop(p.conditions, 1, t) THEN TRUE
    ELSE FALSE

\* The answers the API server can give to Pods(ns).Delete(name): the pod is
\* there and is deleted, it is not there, or the call fails otherwise.
DeleteResponses(ns, name) ==
    IF pod # NoPod /\ pod.namespace = ns /\ pod.name = name
    THEN {"OK", "Error"}
    ELSE {"NotFound", "Error"}

DeleteCall(p) == [verb |-> "Delete", namespace |-> p.namespace, name |-> p.name]

\* healPod with the "restart" case returning before the delete call
healPod_RestartReturns(p, resp) ==
    IF ActionKey \in DOMAIN p.annotations /\ p.annotations[ActionKey] \in {"ignore", "restart"}
    THEN [calls |-> << >>, err |-> "nil"]
    ELSE [calls |-> << DeleteCall(p) >>,
          err   |-> IF resp = "OK" THEN "nil" ELSE resp]

\* healPod with the "restart" case deleting the pod itself and then falling
\* through to the delete call after the switch
healPod_RestartDeletesTwice(p, resp) ==
    IF ActionKey \in DOMAIN p.annotations /\ p.annotations[ActionKey] = "ignore"
    THEN [calls |-> << >>, err |-> "nil"]
    ELSE IF ActionKey \in DOMAIN p.annotations /\ p.annotations[ActionKey] = "restart"
    THEN [calls |-> << DeleteCall(p), DeleteCall(p) >>,
          err   |-> IF resp = "OK" THEN "nil" ELSE resp]
    ELSE [calls |-> << DeleteCall(p) >>,
          err   |-> IF resp = "OK" THEN "nil" ELSE resp]

\* healPod: the calls it makes and the error it returns, resp being the API
\* server's answer to the delete call if one is made.
healPod(p, resp) ==
    IF ActionKey \in DOMAIN p.annotations /\ p.annotations[ActionKey] = "ignore"
    THEN [calls |-> << >>, err |-> "nil"]
    ELSE [calls |-> << DeleteCall(p) >>,
          err   |-> IF resp = "OK" THEN "nil" ELSE resp]

\* The record of a handler run that made no call.
Skipped(p, classified) ==
    [handled |-> TRUE, obj |-> p, classified |-> classified, stuck |-> FALSE,
     calls |-> << >>, resp |-> "none", err |-> "none"]

\* The record of a handler run that called healPod.
Healed(p, resp) ==
    LET h == healPod(p, resp) IN
    [handled |-> TRUE, obj |-> p, classified |-> TRUE, stuck |-> TRUE,
     calls |-> h.calls,
     resp  |-> IF h.calls = << >> THEN "none" ELSE resp,
     err   |-> h.err]

\* handlePod honouring the ignore annotation only when its value is "true"
handlePod_IgnoreValue(p, t, resp) ==
    IF p.namespace = SystemNamespace
    THEN Skipped(p, FALSE)
    ELSE IF IgnoreKey \in DOMAIN p.annotations /\ p.annotations[IgnoreKey] = "true"
    THEN Skipped(p, FALSE)
    ELSE IF isPodStuck(p, t)
    THEN Healed(p, resp)
    ELSE Skipped(p, TRUE)

\* handlePod calling healPod without looking at the verdict
handlePod_NoVerdict(p, t, resp) ==
    IF p.namespace = SystemNamespace
    THEN Skipped(p, FALSE)
    ELSE IF IgnoreKey \in DOMAIN p.annotations
    THEN Skipped(p, FALSE)
    ELSE Healed(p, resp)

\* handlePod at clock t: what the run did.  err is "none" when healPod was
\* not called; stuck is the classifier's verdict when isPodStuck ran.
handlePod(p, t, resp) ==
    IF p.namespace = SystemNamespace
    THEN Skipped(p, FALSE)
    ELSE IF IgnoreKey \in DOMAIN p.annotations
    THEN Skipped(p, FALSE)
    ELSE IF isPodStuck(p, t)
    THEN Healed(p, resp)
    ELSE Skipped(p, TRUE)

\* Run: from its first line to the select statement.  It makes the informer
\* with its two handlers and the stop channel, defers the channel's close to
\* its own return and starts the informer's controller.
RunStart ==
    /\ run.pc = "start"
    /\ run' = [run EXCEPT !.pc = "select", !.stop = "open"]
    /\ UNCHANGED <<now, pod, event, last>>
    /\ UNCHANGED rvars

\* Run is blocked in "select {}" and the informer's controller delivers
Running == run.pc = "select"

\* A handler run and the effect of its delete call on the store.
Deliver(p) ==
    \E resp \in DeleteResponses(p.namespace, p.name) :
        LET r == handlePod(p, now, resp) IN
        /\ last' = r
        /\ pod' = IF r.calls # << >> /\ r.resp = "OK" THEN NoPod ELSE pod
        /\ event' = NoEvent
        /\ now' = now
        /\ UNCHANGED run
        /\ UNCHANGED rvars

AddFunc ==
    /\ Running
    /\ event # NoEvent
    /\ event.type = "Added"
    /\ Deliver(event.obj)

UpdateFunc ==
    /\ Running
    /\ event # NoEvent
    /\ event.type = "Updated"
    /\ Deliver(event.obj)

----------------------------------------------------------------------------
(* The healer's environment: the clock, the API server, the informer *)

Tick ==
    /\ event = NoEvent
    /\ \E t \in TimePoints : t > now /\ now' = t
    /\ last' = NoResult
    /\ UNCHANGED <<pod, event, run>>
    /\ UNCHANGED rvars

PodCreated ==
    /\ Running
    /\ pod = NoPod
    /\ event = NoEvent
    /\ \E p \in FreshPods(now) :
          /\ pod' = p
          /\ event' = [type |-> "Added", obj |-> p]
    /\ last' = NoResult
    /\ now' = now
    /\ UNCHANGED run
    /\ UNCHANGED rvars

PodStatusUpdate ==
    /\ Running
    /\ pod # NoPod
    /\ event = NoEvent
    /\ \E p \in StatusSuccessors(pod, now) :
          /\ pod' = p
          /\ event' = [type |-> "Updated", obj |-> p]
    /\ last' = NoResult
    /\ now' = now
    /\ UNCHANGED run
    /\ UNCHANGED rvars

\* the informer made with a resync period of 0: it never resyncs
Resync_Off ==
    /\ FALSE
    /\ UNCHANGED vars

\* the informer's resync: every 30 seconds each pod in its store is delivered
\* again as an update
Resync ==
    /\ Running
    /\ pod # NoPod
    /\ event = NoEvent
    /\ event' = [type |-> "Updated", obj |-> pod]
    /\ last' = NoResult
    /\ UNCHANGED <<now, pod, run>>
    /\ UNCHANGED rvars

\* Another actor deletes the pod between the notification and the handler
\* run; the notification in flight stays as it is.
ExternalDelete ==
    /\ pod # NoPod
    /\ event # NoEvent
    /\ pod' = NoPod
    /\ UNCHANGED <<now, event, last, run>>
    /\ UNCHANGED rvars

HealerInit ==
    /\ now = 0
    /\ pod = NoPod
    /\ event = NoEvent
    /\ last = NoResult
    /\ run = [pc |-> "start", stop |-> "none", signalled |-> FALSE]

----------------------------------------------------------------------------
(* The NginxDeployment reconciler: objects *)

DefaultImage == "nginx:latest"

DefaultPort == 80

ParentName == "web"

ParentNamespace == "default"

\* replicas, port and image a user may write; port 0 and image "" are unset
ReplicaChoices == {0, 3}

PortChoices == {0, 8080}

ImageChoices == {"", "app:v1"}

ParentSpecs == [replicas : ReplicaChoices, port : PortChoices, image : ImageChoices]

Workers == {"r1", "r2"}

NoParent == [name |-> "<none>"]

NoChild == [name |-> "<none>"]

\* NginxDeployment with a zero NginxDeploymentStatus
NewParent(sp) ==
    [ name      |-> ParentName,
      namespace |-> ParentNamespace,
      spec      |-> sp,
      status    |-> [availableReplicas |-> 0, status |-> ""] ]

\* the defaults with the port default left out
WithDefaults_ImageOnly(nd) ==
    [nd EXCEPT !.spec.image = IF @ = "" THEN DefaultImage ELSE @]

\* Reconcile's "Set defaults" on its local copy
WithDefaults(nd) ==
    [nd EXCEPT !.spec.image = IF @ = "" THEN DefaultImage ELSE @,
               !.spec.port  = IF @ = 0 THEN DefaultPort ELSE @]

HTTPGetProbe(port, delay, timeout) ==
    [ path |-> "/", port |-> port,
      initialDelaySeconds |-> delay, timeoutSeconds |-> timeout ]

\* the appsv1.Deployment literal of reconcileDeployment
DeploymentFor(nd) ==
    [ name      |-> nd.name \o "-deployment",
      namespace |-> nd.namespace,
      owner     |-> "",
      spec      |-> [ replicas       |-> nd.spec.replicas,
                      selector       |-> nd.name,
                      labels         |-> nd.name,
                      containerName  |-> "nginx",
                      image          |-> nd.spec.image,
                      containerPort  |-> nd.spec.port,
                      livenessProbe  |-> HTTPGetProbe(nd.spec.port, 15, 5),
                      readinessProbe |-> HTTPGetProbe(nd.spec.port, 5, 5) ],
      status    |-> [availableReplicas |-> 0] ]

\* the corev1.Service literal of reconcileService
ServiceFor(nd) ==
    [ name      |-> nd.name \o "-service",
      namespace |-> nd.namespace,
      owner     |-> "",
      spec      |-> [ selector   |-> nd.name,
                      port       |-> nd.spec.port,
                      targetPort |-> nd.spec.port,
                      type       |-> "ClusterIP" ] ]

\* ctrl.SetControllerReference(owner, obj, scheme)
SetControllerReference(owner, obj) == [obj EXCEPT !.owner = owner.name]

\* fmt.Sprintf("Available: %d/%d", x, y)
SprintfAvailable(x, y) == "Available: " \o ToString(x) \o "/" \o ToString(y)

\* the projection answering "Ready" as soon as enough replicas are available
ProjectedStatus_AtLeast(nd, d) ==
    [ availableReplicas |-> d.status.availableReplicas,
      status |-> IF d.status.availableReplicas >= nd.spec.replicas
                 THEN "Ready"
                 ELSE SprintfAvailable(d.status.availableReplicas, nd.spec.replicas) ]

\* the Status updateStatus computes from the Deployment it read
ProjectedStatus(nd, d) ==
    [ availableReplicas |-> d.status.availableReplicas,
      status |-> IF d.status.availableReplicas = nd.spec.replicas
                 THEN "Ready"
                 ELSE SprintfAvailable(d.status.availableReplicas, nd.spec.replicas) ]

----------------------------------------------------------------------------
(* The API server's answers *)

GetResponses(obj, none) ==
    IF obj # none THEN {"OK", "Error"} ELSE {"NotFound", "Error"}

CreateResponses(obj, none) ==
    IF obj = none THEN {"OK", "Error"} ELSE {"AlreadyExists", "Error"}

\* Update is refused when the object is gone or is no longer the object the
\* caller read (the resourceVersion check, compared here by content).
UpdateResponses(obj, none, read) ==
    IF obj = none THEN {"NotFound", "Error"}
    ELSE IF obj # read THEN {"Conflict", "Error"}
    ELSE {"OK", "Error"}

Call(verb, kind, obj, resp) ==
    [verb |-> verb, kind |-> kind, obj |-> obj, resp |-> resp]

----------------------------------------------------------------------------
(* Reconcile, one step per call to the API server: each action is the call *)
(* and the code that runs up to the next call.  Reconcile is not atomic     *)
(* against the store, so another actor's write can fall between two calls.  *)

IdleRec ==
    [ pc    |-> "idle",
      nd    |-> NoParent,
      orig  |-> NoParent,
      found |-> NoChild,
      seen  |-> [deployment |-> "-", service |-> "-"],
      calls |-> << >>,
      err   |-> "none" ]

\* Reconcile returns err
Return(r, err) == [r EXCEPT !.pc = "done", !.err = err]

\* the comparison extended to the container port
NeedsUpdate_Port(found, desired) ==
    \/ found.spec.replicas # desired.spec.replicas
    \/ found.spec.image # desired.spec.image
    \/ found.spec.containerPort # desired.spec.containerPort

\* the comparison of the whole compiled spec
NeedsUpdate_WholeSpec(found, desired) ==
    found.spec # desired.spec

\* the comparison with the image left out
NeedsUpdate_ReplicasOnly(found, desired) ==
    found.spec.replicas # desired.spec.replicas

\* the comparison of reconcileDeployment's "Update if needed"
NeedsUpdate(found, desired) ==
    \/ found.spec.replicas # desired.spec.replicas
    \/ found.spec.image # desired.spec.image

\* Reconcile: r.Get of the NginxDeployment and the defaults
ReconcileGet(w) ==
    /\ rec[w].pc \in {"idle", "done"}
    /\ \E resp \in GetResponses(parent, NoParent) :
          rec' = [rec EXCEPT ![w] =
                    IF resp = "NotFound" THEN Return(IdleRec, "nil")
                    ELSE IF resp # "OK" THEN Return(IdleRec, resp)
                    ELSE [IdleRec EXCEPT !.pc = "rd_get",
                                         !.nd = WithDefaults(parent),
                                         !.orig = parent]]
    /\ UNCHANGED <<parent, deployment, service>>
    /\ UNCHANGED hvars

\* reconcileDeployment: r.Get of the Deployment and the choice that follows
DeploymentGet(w) ==
    /\ rec[w].pc = "rd_get"
    /\ \E resp \in GetResponses(deployment, NoChild) :
          LET desired == SetControllerReference(rec[w].nd, DeploymentFor(rec[w].nd)) IN
          rec' = [rec EXCEPT ![w] =
                    IF resp = "NotFound"
                    THEN [@ EXCEPT !.pc = "rd_create", !.seen.deployment = "notfound"]
                    ELSE IF resp # "OK" THEN Return(@, resp)
                    ELSE IF NeedsUpdate(deployment, desired)
                    THEN [@ EXCEPT !.pc = "rd_update", !.found = deployment,
                                   !.seen.deployment = "found"]
                    ELSE [@ EXCEPT !.pc = "rs_get", !.found = deployment,
                                   !.seen.deployment = "found"]]
    /\ UNCHANGED <<parent, deployment, service>>
    /\ UNCHANGED hvars

\* reconcileDeployment taking an already-exists answer to its create for success
DeploymentCreate_IgnoreExists(w) ==
    /\ rec[w].pc = "rd_create"
    /\ \E resp \in CreateResponses(deployment, NoChild) :
          LET desired == SetControllerReference(rec[w].nd, DeploymentFor(rec[w].nd)) IN
          /\ deployment' = IF resp = "OK" THEN desired ELSE deployment
          /\ rec' = [rec EXCEPT ![w] =
                       LET r == [@ EXCEPT !.calls =
                                    Append(@, Call("Create", "Deployment", desired, resp))]
                       IN IF resp \in {"OK", "AlreadyExists"} THEN [r EXCEPT !.pc = "rs_get"]
                          ELSE Return(r, resp)]
    /\ UNCHANGED <<parent, service>>
    /\ UNCHANGED hvars

\* reconcileDeployment: return r.Create(ctx, deployment)
DeploymentCreate(w) ==
    /\ rec[w].pc = "rd_create"
    /\ \E resp \in CreateResponses(deployment, NoChild) :
          LET desired == SetControllerReference(rec[w].nd, DeploymentFor(rec[w].nd)) IN
          /\ deployment' = IF resp = "OK" THEN desired ELSE deployment
          /\ rec' = [rec EXCEPT ![w] =
                       LET r == [@ EXCEPT !.calls =
                                    Append(@, Call("Create", "Deployment", desired, resp))]
                       IN IF resp = "OK" THEN [r EXCEPT !.pc = "rs_get"]
                          ELSE Return(r, resp)]
    /\ UNCHANGED <<parent, service>>
    /\ UNCHANGED hvars

\* a field-level patch: only the two compared fields are copied
UpdatePayload_Patch(found, desired) ==
    [found EXCEPT !.spec.replicas = desired.spec.replicas,
                  !.spec.image = desired.spec.image]

\* the object reconcileDeployment submits: foundDeploy with its Spec replaced
UpdatePayload(found, desired) == [found EXCEPT !.spec = desired.spec]

\* reconcileDeployment: foundDeploy.Spec = deployment.Spec; return r.Update
DeploymentUpdate(w) ==
    /\ rec[w].pc = "rd_update"
    /\ \E resp \in UpdateResponses(deployment, NoChild, rec[w].found) :
          LET desired == SetControllerReference(rec[w].nd, DeploymentFor(rec[w].nd))
              payload == UpdatePayload(rec[w].found, desired)
          IN
          /\ deployment' = IF resp = "OK"
                           THEN [payload EXCEPT !.status = deployment.status]
                           ELSE deployment
          /\ rec' = [rec EXCEPT ![w] =
                       LET r == [@ EXCEPT !.calls =
                                    Append(@, Call("Update", "Deployment", payload, resp))]
                       IN IF resp = "OK" THEN [r EXCEPT !.pc = "rs_get"]
                          ELSE Return(r, resp)]
    /\ UNCHANGED <<parent, service>>
    /\ UNCHANGED hvars

\* reconcileService re-diffing a Service it found: on a port mismatch it
\* overwrites the Service's spec and submits an update
ServiceGet_Rediff(w) ==
    /\ rec[w].pc = "rs_get"
    /\ \E resp \in GetResponses(service, NoChild) :
          LET desired == SetControllerReference(rec[w].nd, ServiceFor(rec[w].nd))
              drifted == resp = "OK" /\ service.spec.port # desired.spec.port
              payload == IF drifted THEN [service EXCEPT !.spec = desired.spec]
                         ELSE service
          IN
          /\ service' = payload
          /\ rec' = [rec EXCEPT ![w] =
                       IF resp = "NotFound"
                       THEN [@ EXCEPT !.pc = "rs_create", !.seen.service = "notfound"]
                       ELSE IF resp # "OK" THEN Return(@, resp)
                       ELSE IF drifted
                       THEN [@ EXCEPT !.pc = "us_get", !.seen.service = "found",
                                      !.calls = Append(@, Call("Update", "Service",
                                                               payload, "OK"))]
                       ELSE [@ EXCEPT !.pc = "us_get", !.seen.service = "found"]]
    /\ UNCHANGED <<parent, deployment>>
    /\ UNCHANGED hvars

\* reconcileService: r.Get of the Service
ServiceGet(w) ==
    /\ rec[w].pc = "rs_get"
    /\ \E resp \in GetResponses(service, NoChild) :
          rec' = [rec EXCEPT ![w] =
                    IF resp = "NotFound"
                    THEN [@ EXCEPT !.pc = "rs_create", !.seen.service = "notfound"]
                    ELSE IF resp # "OK" THEN Return(@, resp)
                    ELSE [@ EXCEPT !.pc = "us_get", !.seen.service = "found"]]
    /\ UNCHANGED <<parent, deployment, service>>
    /\ UNCHANGED hvars

\* reconcileService: return r.Create(ctx, service)
ServiceCreate(w) ==
    /\ rec[w].pc = "rs_create"
    /\ \E resp \in CreateResponses(service, NoChild) :
          LET desired == SetControllerReference(rec[w].nd, ServiceFor(rec[w].nd)) IN
          /\ service' = IF resp = "OK" THEN desired ELSE service
          /\ rec' = [rec EXCEPT ![w] =
                       LET r == [@ EXCEPT !.calls =
                                    Append(@, Call("Create", "Service", desired, resp))]
                       IN IF resp = "OK" THEN [r EXCEPT !.pc = "us_get"]
                          ELSE Return(r, resp)]
    /\ UNCHANGED <<parent, deployment>>
    /\ UNCHANGED hvars

\* updateStatus taking a Deployment it cannot find for one with no replica
\* available, and going on to the status write
StatusGet_NotFoundAsZero(w) ==
    /\ rec[w].pc = "us_get"
    /\ \E resp \in GetResponses(deployment, NoChild) :
          rec' = [rec EXCEPT ![w] =
                    IF resp = "NotFound"
                    THEN [@ EXCEPT !.pc = "us_update",
                                   !.nd.status =
                                       ProjectedStatus(rec[w].nd,
                                           [status |-> [availableReplicas |-> 0]])]
                    ELSE IF resp # "OK" THEN Return(@, resp)
                    ELSE [@ EXCEPT !.pc = "us_update",
                                   !.nd.status = ProjectedStatus(rec[w].nd, deployment)]]
    /\ UNCHANGED <<parent, deployment, service>>
    /\ UNCHANGED hvars

\* updateStatus: r.Get of the Deployment and the Status computed from it
StatusGet(w) ==
    /\ rec[w].pc = "us_get"
    /\ \E resp \in GetResponses(deployment, NoChild) :
          rec' = [rec EXCEPT ![w] =
                    IF resp # "OK" THEN Return(@, resp)
                    ELSE [@ EXCEPT !.pc = "us_update",
                                   !.nd.status = ProjectedStatus(rec[w].nd, deployment)]]
    /\ UNCHANGED <<parent, deployment, service>>
    /\ UNCHANGED hvars

\* updateStatus: return r.Status().Update(ctx, nginxDeploy)
StatusUpdate(w) ==
    /\ rec[w].pc = "us_update"
    /\ \E resp \in UpdateResponses(parent, NoParent, rec[w].orig) :
          /\ parent' = IF resp = "OK"
                       THEN [parent EXCEPT !.status = rec[w].nd.status]
                       ELSE parent
          /\ rec' = [rec EXCEPT ![w] =
                       Return([@ EXCEPT !.calls =
                                  Append(@, Call("StatusUpdate", "NginxDeployment",
                                                 rec[w].nd, resp))],
                              IF resp = "OK" THEN "nil" ELSE resp)]
    /\ UNCHANGED <<deployment, service>>
    /\ UNCHANGED hvars

----------------------------------------------------------------------------
(* The reconciler's environment: users, controllers and other actors *)

\* No Reconcile is between two of its calls.
Quiescent == \A w \in Workers : rec[w].pc \in {"idle", "done"}

\* A finished Reconcile's record is dropped once the world moves on.
Forget == [w \in Workers |-> IF rec[w].pc = "done" THEN IdleRec ELSE rec[w]]

\* a user creates the NginxDeployment or changes its Spec
ParentApplied ==
    /\ Quiescent
    /\ \E sp \in ParentSpecs :
          IF parent = NoParent
          THEN parent' = NewParent(sp)
          ELSE sp # parent.spec /\ parent' = [parent EXCEPT !.spec = sp]
    /\ rec' = Forget
    /\ UNCHANGED <<deployment, service>>
    /\ UNCHANGED hvars

\* a user deletes the NginxDeployment; children that name it as owner go too
ParentDeleted ==
    /\ Quiescent
    /\ parent # NoParent
    /\ parent' = NoParent
    /\ deployment' = IF deployment # NoChild /\ deployment.owner = parent.name
                     THEN NoChild ELSE deployment
    /\ service' = IF service # NoChild /\ service.owner = parent.name
                  THEN NoChild ELSE service
    /\ rec' = Forget
    /\ UNCHANGED hvars

\* the Deployment controller reports another number of available replicas
DeploymentObserved ==
    /\ Quiescent
    /\ deployment # NoChild
    /\ \E a \in ReplicaChoices \ {deployment.status.availableReplicas} :
          deployment' = [deployment EXCEPT !.status.availableReplicas = a]
    /\ rec' = Forget
    /\ UNCHANGED <<parent, service>>
    /\ UNCHANGED hvars

\* another actor edits the Deployment's replicas or image
DeploymentEdited ==
    /\ Quiescent
    /\ deployment # NoChild
    /\ \/ \E n \in ReplicaChoices \ {deployment.spec.replicas} :
             deployment' = [deployment EXCEPT !.spec.replicas = n]
       \/ \E im \in {DefaultImage, "app:v1"} \ {deployment.spec.image} :
             deployment' = [deployment EXCEPT !.spec.image = im]
    /\ rec' = Forget
    /\ UNCHANGED <<parent, service>>
    /\ UNCHANGED hvars

\* another actor creates an object under a child's name: it has the shape of
\* a child but carries no owner reference
ChildCreatedByOther ==
    /\ Quiescent
    /\ \E sp \in ParentSpecs :
          LET nd == WithDefaults(NewParent(sp)) IN
          \/ /\ deployment = NoChild
             /\ deployment' = DeploymentFor(nd)
             /\ service' = service
          \/ /\ service = NoChild
             /\ service' = ServiceFor(nd)
             /\ deployment' = deployment
    /\ rec' = Forget
    /\ UNCHANGED parent
    /\ UNCHANGED hvars

\* another actor deletes a child
ChildDeleted ==
    /\ \/ deployment # NoChild /\ deployment' = NoChild /\ service' = service
       \/ service # NoChild /\ service' = NoChild /\ deployment' = deployment
    /\ rec' = Forget
    /\ UNCHANGED parent
    /\ UNCHANGED hvars

ReconInit ==
    /\ parent = NoParent
    /\ deployment = NoChild
    /\ service = NoChild
    /\ rec = [w \in Workers |-> IdleRec]

Init == HealerInit /\ ReconInit

Next ==
    \/ RunStart
    \/ AddFunc
    \/ UpdateFunc
    \/ Tick
    \/ PodCreated
    \/ PodStatusUpdate
    \/ Resync
    \/ ExternalDelete

Spec == Init /\ [][Next]_vars

\* a handler run whose delete call the store accepts
DeleteSucceeds ==
    /\ AddFunc \/ UpdateFunc
    /\ last'.resp = "OK"

\* Run gets to its select statement; the informer resyncs whenever it has
\* nothing in flight and runs the handler for whatever it has in flight; and a
\* delete call that keeps being made is accepted in the end.
SpecF ==
    /\ Init
    /\ [][Next]_vars
    /\ WF_vars(RunStart)
    /\ WF_vars(Resync)
    /\ WF_vars(AddFunc \/ UpdateFunc)
    /\ SF_vars(DeleteSucceeds)

\* An external shutdown signal (SIGINT, SIGTERM) reaches the process while
\* Run waits.  The program installs no handler for it and "select {}" has no
\* case, so nothing in Run reacts: the Go runtime ends the process where it
\* stands, Run does not return and its deferred close(stop) does not run.
Shutdown ==
    /\ Running
    /\ ~run.signalled
    /\ run' = [run EXCEPT !.signalled = TRUE, !.pc = "killed"]
    /\ UNCHANGED <<now, pod, event, last>>
    /\ UNCHANGED rvars

NextS ==
    \/ Next
    \/ Shutdown

SpecS == Init /\ [][NextS]_vars

\* One Reconcile at a time per NginxDeployment, as the controller's work queue
\* runs it.
Reconciler == "r1"

NextR ==
    \/ ReconcileGet(Reconciler)
    \/ DeploymentGet(Reconciler)
    \/ DeploymentCreate(Reconciler)
    \/ DeploymentUpdate(Reconciler)
    \/ ServiceGet(Reconciler)
    \/ ServiceCreate(Reconciler)
    \/ StatusGet(Reconciler)
    \/ StatusUpdate(Reconciler)
    \/ ParentApplied
    \/ ParentDeleted
    \/ DeploymentObserved
    \/ DeploymentEdited
    \/ ChildCreatedByOther
    \/ ChildDeleted

SpecR == Init /\ [][NextR]_vars

\* The controller runs Reconcile again after every return (a returned error
\* requeues the key, a watch event or the resync queues it), so each step of
\* Reconcile is taken in the end; and a call that keeps being made is answered
\* without failure in the end, which strong fairness of each step's successful
\* outcome states.
Step(w) ==
    \/ ReconcileGet(w)
    \/ DeploymentGet(w)
    \/ DeploymentCreate(w)
    \/ DeploymentUpdate(w)
    \/ ServiceGet(w)
    \/ ServiceCreate(w)
    \/ StatusGet(w)
    \/ StatusUpdate(w)

CallsSucceedInTheEnd ==
    /\ SF_vars(ReconcileGet(Reconciler)     /\ rec'[Reconciler].pc = "rd_get")
    /\ SF_vars(DeploymentGet(Reconciler)    /\ rec'[Reconciler].pc # "done")
    /\ SF_vars(DeploymentCreate(Reconciler) /\ rec'[Reconciler].pc = "rs_get")
    /\ SF_vars(DeploymentUpdate(Reconciler) /\ rec'[Reconciler].pc = "rs_get")
    /\ SF_vars(ServiceGet(Reconciler)       /\ rec'[Reconciler].pc # "done")
    /\ SF_vars(ServiceCreate(Reconciler)    /\ rec'[Reconciler].pc = "us_get")
    /\ SF_vars(StatusGet(Reconciler)        /\ rec'[Reconciler].pc = "us_update")
    /\ SF_vars(StatusUpdate(Reconciler)     /\ rec'[Reconciler].err = "nil")

\* Reconcile with the actors that can undo its work or change its goal
NextL ==
    \/ Step(Reconciler)
    \/ ParentApplied
    \/ DeploymentEdited
    \/ ChildDeleted

SpecL == Init /\ [][NextL]_vars /\ WF_vars(Step(Reconciler)) /\ CallsSucceedInTheEnd

----------------------------------------------------------------------------
(* Two Reconcile invocations for the same parent at a time.  The store alone *)
(* arbitrates: Create is refused when the object exists, Update when the     *)
(* object is no longer the one read.                                          *)

\* a worker takes the parent's key from the queue
Start(w) ==
    /\ rec[w].pc = "idle"
    /\ ReconcileGet(w)

\* a user changes the Spec after one invocation has read it and before that
\* invocation's write to the Deployment is answered, the other invocation
\* not having started: the two then work from different Specs
SpecChanged ==
    /\ \E w \in Workers : rec[w].pc \in {"rd_get", "rd_create", "rd_update"}
    /\ \E w \in Workers : rec[w].pc = "idle"
    /\ parent # NoParent
    /\ \E sp \in ParentSpecs :
          /\ sp # parent.spec
          /\ parent' = [parent EXCEPT !.spec = sp]
    /\ UNCHANGED <<deployment, service, rec>>
    /\ UNCHANGED hvars

\* both invocations have returned and the key is queued again for both
Requeued ==
    /\ \A w \in Workers : rec[w].pc = "done"
    /\ rec' = Forget
    /\ UNCHANGED <<parent, deployment, service>>
    /\ UNCHANGED hvars

NextC ==
    \/ \E w \in Workers :
          \/ Start(w)
          \/ DeploymentGet(w)
          \/ DeploymentCreate(w)
          \/ DeploymentUpdate(w)
          \/ ServiceGet(w)
          \/ ServiceCreate(w)
          \/ StatusGet(w)
          \/ StatusUpdate(w)
    \/ ParentApplied
    \/ SpecChanged
    \/ Requeued

SpecC == Init /\ [][NextC]_vars

----------------------------------------------------------------------------
(* Properties of the reconciler *)

\* the Spec with unset port and image replaced by 80 and "nginx:latest"
DefaultFilled(sp) ==
    [ replicas |-> sp.replicas,
      port     |-> IF sp.port = 0 THEN 80 ELSE sp.port,
      image    |-> IF sp.image = "" THEN "nginx:latest" ELSE sp.image ]

\* the workload definition of a default-filled Spec
ExpectedDeploymentSpec(name, sp) ==
    [ replicas       |-> sp.replicas,
      selector       |-> name,
      labels         |-> name,
      containerName  |-> "nginx",
      image          |-> sp.image,
      containerPort  |-> sp.port,
      livenessProbe  |-> [path |-> "/", port |-> sp.port,
                          initialDelaySeconds |-> 15, timeoutSeconds |-> 5],
      readinessProbe |-> [path |-> "/", port |-> sp.port,
                          initialDelaySeconds |-> 5, timeoutSeconds |-> 5] ]

IsChildCall(c) == c.kind \in {"Deployment", "Service"}

ChildCalls(r) == SelectSeq(r.calls, IsChildCall)

IsUpdateCall(c) == c.verb = "Update"

IsDeploymentCall(c) == c.kind = "Deployment"

UpdateCalls(r) == SelectSeq(r.calls, IsUpdateCall)

\* this Reconcile found the Deployment with the replicas and image of the
\* default-filled Spec it read, and found the Service
SawConverged(r) ==
    /\ r.seen.deployment = "found"
    /\ r.found.spec.replicas = DefaultFilled(r.orig.spec).replicas
    /\ r.found.spec.image = DefaultFilled(r.orig.spec).image
    /\ r.seen.service = "found"

\* this Reconcile found the Deployment with other replicas or another image
\* than the default-filled Spec it read
SawDrift(r) ==
    /\ r.seen.deployment = "found"
    /\ \/ r.found.spec.replicas # DefaultFilled(r.orig.spec).replicas
       \/ r.found.spec.image # DefaultFilled(r.orig.spec).image

\* C1: a Reconcile that finds both children, the Deployment with the
\* replicas and image of the default-filled Spec, issues no create and no
\* update call on a child; this holds of every Reconcile of a run.
C1_ConvergedNoChildWrite ==
    \A w \in Workers : SawConverged(rec[w]) => ChildCalls(rec[w]) = << >>

\* a Reconcile of a parent with unset image and port has returned nil having
\* found both children as its default-filled Spec wants them
C1_Witness ==
    /\ rec[Reconciler].pc = "done"
    /\ rec[Reconciler].err = "nil"
    /\ SawConverged(rec[Reconciler])
    /\ rec[Reconciler].orig.spec.image = ""
    /\ rec[Reconciler].orig.spec.port = 0
    /\ ChildCalls(rec[Reconciler]) = << >>

\* C2: a finished Reconcile that found both children matching the Spec and
\* the parent's Status already equal to the status derived from the
\* Deployment has made no mutating call at all, status write included.
C2_ConvergedNoWrite ==
    \A w \in Workers :
        ( /\ rec[w].pc = "done"
          /\ SawConverged(rec[w])
          /\ rec[w].orig.status = rec[w].nd.status )
        => rec[w].calls = << >>

\* C9: a Reconcile whose lookups find neither child issues, as its calls on
\* children, one create of the Deployment and then one create of the Service
\* and no update; the Deployment carries the replicas, image and port of the
\* default-filled Spec and the Service exposes that port.
C9_CreatesBothChildren ==
    \A w \in Workers :
        ( /\ rec[w].seen.deployment = "notfound"
          /\ rec[w].seen.service = "notfound"
          /\ rec[w].pc # "rs_create" )
        => LET cc == ChildCalls(rec[w])
               sp == DefaultFilled(rec[w].orig.spec)
           IN /\ Len(cc) = 2
              /\ cc[1].verb = "Create" /\ cc[1].kind = "Deployment"
              /\ cc[1].resp = "OK"
              /\ cc[1].obj.name = "web-deployment"
              /\ cc[1].obj.spec.replicas = sp.replicas
              /\ cc[1].obj.spec.image = sp.image
              /\ cc[1].obj.spec.containerPort = sp.port
              /\ cc[2].verb = "Create" /\ cc[2].kind = "Service"
              /\ cc[2].obj.name = "web-service"
              /\ cc[2].obj.spec.port = sp.port
              /\ cc[2].obj.spec.targetPort = sp.port

\* the Reconcile of Spec{replicas 3, port 8080, image app:v1} without
\* children has returned nil and both children are stored with port 8080
C9_Witness ==
    /\ rec[Reconciler].pc = "done"
    /\ rec[Reconciler].err = "nil"
    /\ rec[Reconciler].seen.deployment = "notfound"
    /\ rec[Reconciler].seen.service = "notfound"
    /\ rec[Reconciler].orig.spec = [replicas |-> 3, port |-> 8080, image |-> "app:v1"]
    /\ deployment # NoChild /\ deployment.spec.replicas = 3
    /\ deployment.spec.containerPort = 8080
    /\ service # NoChild /\ service.spec.port = 8080

\* C10: a Reconcile that finds the Deployment with other replicas or another
\* image than desired submits, once past that step, exactly one update, whose
\* spec is the whole desired workload spec; and the step in which that update
\* succeeds leaves the stored Deployment spec equal to the desired one.
C10_DriftOverwritten ==
    /\ [] \A w \in Workers :
            LET r  == rec[w]
                uc == UpdateCalls(r)
            IN /\ (SawDrift(r) /\ r.pc # "rd_update") =>
                     /\ Len(uc) = 1
                     /\ SelectSeq(r.calls, IsDeploymentCall) = uc
               /\ \A i \in 1..Len(uc) :
                     /\ uc[i].kind = "Deployment"
                     /\ uc[i].obj.spec =
                          ExpectedDeploymentSpec(r.orig.name, DefaultFilled(r.orig.spec))
    /\ [][ \A w \in Workers :
             (rec[w].pc = "rd_update" /\ rec'[w].pc = "rs_get") =>
                 deployment'.spec =
                     ExpectedDeploymentSpec(rec[w].orig.name, DefaultFilled(rec[w].orig.spec))
         ]_vars

\* an update of a Deployment that differed in image and also exposed another
\* port than desired has succeeded and the stored port is the desired one
C10_Witness ==
    /\ rec[Reconciler].pc = "rs_get"
    /\ SawDrift(rec[Reconciler])
    /\ rec[Reconciler].found.spec.containerPort # rec[Reconciler].nd.spec.port
    /\ rec[Reconciler].found.spec.replicas = rec[Reconciler].nd.spec.replicas
    /\ Len(UpdateCalls(rec[Reconciler])) = 1
    /\ deployment # NoChild
    /\ deployment.spec.containerPort = rec[Reconciler].nd.spec.port

IsServiceCall(c) == c.kind = "Service"

ServiceCalls(r) == SelectSeq(r.calls, IsServiceCall)

\* C11: a Reconcile whose lookup finds the Service issues no create and no
\* update call for it, whatever port its Spec asks for; the only call a
\* Reconcile ever issues for a Service is a create, and it issues one only in a
\* step that starts with no Service stored; and no step changes a stored
\* Service: a Service that is stored before and after a step is the same.
C11_ServiceNeverUpdated ==
    /\ [] \A w \in Workers :
            /\ rec[w].seen.service = "found" => ServiceCalls(rec[w]) = << >>
            /\ \A i \in 1..Len(rec[w].calls) :
                   rec[w].calls[i].kind = "Service" => rec[w].calls[i].verb = "Create"
    /\ [][ /\ (service # NoChild /\ service' # NoChild) => service' = service
           /\ \A w \in Workers :
                 Len(ServiceCalls(rec'[w])) > Len(ServiceCalls(rec[w]))
                     => service = NoChild
         ]_vars

\* a Reconcile of a parent whose port was changed after the Service was
\* created has returned nil: it found the Service, made no call for it, and
\* the Service still exposes the port it was created with
C11_Witness ==
    /\ rec[Reconciler].pc = "done"
    /\ rec[Reconciler].err = "nil"
    /\ rec[Reconciler].seen.service = "found"
    /\ ServiceCalls(rec[Reconciler]) = << >>
    /\ service # NoChild
    /\ service.owner = ParentName
    /\ service.spec.port = 8080
    /\ rec[Reconciler].nd.spec.port = 80

\* C12: the Status a Reconcile carries out of its read of the Deployment has
\* the available-replica count of the Deployment as stored at that read; and
\* the step in which the status write succeeds leaves the parent with that
\* count X and, Y being Spec.replicas, with the Status string "Ready" exactly
\* when X = Y and "Available: X/Y" otherwise.
C12_StatusProjection ==
    [][ \A w \in Workers :
          /\ (rec[w].pc = "us_get" /\ rec'[w].pc = "us_update") =>
                rec'[w].nd.status.availableReplicas = deployment.status.availableReplicas
          /\ (rec[w].pc = "us_update" /\ rec'[w].pc = "done" /\ rec'[w].err = "nil") =>
                LET x == rec[w].nd.status.availableReplicas
                    y == parent'.spec.replicas
                IN /\ parent'.status.availableReplicas = x
                   /\ parent'.status.status = "Ready" <=> x = y
                   /\ x # y => parent'.status.status =
                                  "Available: " \o ToString(x) \o "/" \o ToString(y)
      ]_vars

\* a status write has succeeded for a parent asking for 0 replicas whose
\* Deployment reports 3 available: the parent reads "Available: 3/0"
C12_Witness ==
    /\ rec[Reconciler].pc = "done"
    /\ rec[Reconciler].err = "nil"
    /\ rec[Reconciler].calls # << >>
    /\ rec[Reconciler].calls[Len(rec[Reconciler].calls)].verb = "StatusUpdate"
    /\ parent # NoParent
    /\ parent.spec.replicas = 0
    /\ deployment # NoChild
    /\ deployment.status.availableReplicas = 3
    /\ parent.status = [availableReplicas |-> 3, status |-> "Available: 3/0"]

\* the creates of kind k this invocation had accepted
CreatedOK(r, k) ==
    { i \in 1..Len(r.calls) :
        r.calls[i].verb = "Create" /\ r.calls[i].kind = k /\ r.calls[i].resp = "OK" }

\* the writes of kind k this invocation had accepted
WroteOK(r, k) ==
    { i \in 1..Len(r.calls) : r.calls[i].kind = k /\ r.calls[i].resp = "OK" }

\* this invocation read the parent and returned nil or an error of the store's
\* create-if-absent and optimistic-concurrency checks
RanToRaceOutcome(r) ==
    /\ r.pc = "done"
    /\ r.orig # NoParent
    /\ r.err \in {"nil", "AlreadyExists", "Conflict"}

\* C13: of two invocations for the same parent, at most one has a create
\* accepted per child; an invocation whose create or update was refused has
\* returned that error; and once both have returned without any other failure,
\* both children are stored, and a child written by one of them has the whole
\* definition compiled by an invocation whose write was accepted.
C13_RaceSafe ==
    /\ \A k \in {"Deployment", "Service"} :
          \A w1, w2 \in Workers :
             (CreatedOK(rec[w1], k) # {} /\ CreatedOK(rec[w2], k) # {}) => w1 = w2
    /\ \A w \in Workers :
          \A i \in 1..Len(rec[w].calls) :
             rec[w].calls[i].resp # "OK" =>
                /\ i = Len(rec[w].calls)
                /\ rec[w].pc = "done"
                /\ rec[w].err = rec[w].calls[i].resp
    /\ (\A w \in Workers : RanToRaceOutcome(rec[w])) =>
          /\ deployment # NoChild
          /\ service # NoChild
          /\ (\E w \in Workers : WroteOK(rec[w], "Deployment") # {}) =>
                \E w \in Workers :
                   /\ WroteOK(rec[w], "Deployment") # {}
                   /\ deployment.owner = rec[w].orig.name
                   /\ deployment.spec =
                        ExpectedDeploymentSpec(rec[w].orig.name,
                                               DefaultFilled(rec[w].orig.spec))
          /\ (\E w \in Workers : WroteOK(rec[w], "Service") # {}) =>
                \E w \in Workers :
                   /\ WroteOK(rec[w], "Service") # {}
                   /\ service.owner = rec[w].orig.name
                   /\ service.spec.port = DefaultFilled(rec[w].orig.spec).port
                   /\ service.spec.targetPort = DefaultFilled(rec[w].orig.spec).port

\* two invocations that read different Specs both asked to create the
\* Deployment: one create was accepted, the other was answered already-exists
\* and its invocation returned that error; the stored Deployment is the
\* winner's
C13_Witness ==
    /\ \A w \in Workers : RanToRaceOutcome(rec[w])
    /\ rec["r1"].orig.spec # rec["r2"].orig.spec
    /\ rec["r1"].err = "AlreadyExists"
    /\ rec["r1"].calls = << Call("Create", "Deployment",
                                 rec["r1"].calls[1].obj, "AlreadyExists") >>
    /\ CreatedOK(rec["r2"], "Deployment") # {}
    /\ deployment # NoChild
    /\ deployment.spec # rec["r1"].calls[1].obj.spec
    /\ service # NoChild

\* a step in which no user changes, creates or deletes the parent and no other
\* actor deletes a child or edits the Deployment's spec
Undisturbed ==
    /\ (parent = NoParent) <=> (parent' = NoParent)
    /\ parent # NoParent => parent'.spec = parent.spec
    /\ deployment # NoChild => deployment' # NoChild
    /\ service # NoChild => service' # NoChild
    /\ (deployment # NoChild /\ deployment'.spec # deployment.spec)
          => rec[Reconciler].pc = "rd_update"

\* both children are stored, the Deployment has the replicas and image of the
\* default-filled Spec, and a Reconcile has just returned nil from its status
\* write
Converged ==
    /\ parent # NoParent
    /\ deployment # NoChild
    /\ service # NoChild
    /\ deployment.spec.replicas = DefaultFilled(parent.spec).replicas
    /\ deployment.spec.image = DefaultFilled(parent.spec).image
    /\ rec[Reconciler].pc = "done"
    /\ rec[Reconciler].err = "nil"
    /\ rec[Reconciler].calls # << >>
    /\ rec[Reconciler].calls[Len(rec[Reconciler].calls)] =
          Call("StatusUpdate", "NginxDeployment", rec[Reconciler].nd, "OK")

\* C14: if from some point on the parent's Spec no longer changes and no
\* other actor deletes or edits what is stored, while Reconcile keeps being
\* run and its calls succeed in the end, then, whatever failed or partly
\* applied Reconcile came before, as long as the parent exists a Reconcile
\* again and again returns nil from its status write with both children
\* stored and the Deployment's replicas and image equal to the Spec.
C14_Recovers ==
    (<>[][Undisturbed]_vars) => []<>(parent = NoParent \/ Converged)

\* a partly applied Reconcile: it created the Deployment, its create of the
\* Service failed and it returned the error; the Service is not stored
C14_Witness ==
    /\ rec[Reconciler].pc = "done"
    /\ rec[Reconciler].err = "Error"
    /\ Len(rec[Reconciler].calls) = 2
    /\ rec[Reconciler].calls[1].verb = "Create"
    /\ rec[Reconciler].calls[1].kind = "Deployment"
    /\ rec[Reconciler].calls[1].resp = "OK"
    /\ rec[Reconciler].calls[2].kind = "Service"
    /\ rec[Reconciler].calls[2].resp = "Error"
    /\ deployment # NoChild
    /\ service = NoChild

\* C16: when a Reconcile has returned nil, the Deployment and the Service
\* stored under the parent's names both carry the owner reference to the
\* parent, also when the Reconcile found them already stored.
C16_ChildrenOwned ==
    ( /\ rec[Reconciler].pc = "done"
      /\ rec[Reconciler].err = "nil"
      /\ rec[Reconciler].orig # NoParent
      /\ deployment # NoChild
      /\ service # NoChild )
    => /\ deployment.owner = rec[Reconciler].orig.name
       /\ service.owner = rec[Reconciler].orig.name

\* the place of a call in Reconcile's order of steps
StepOf(c) ==
    IF c.kind = "Deployment" THEN 1 ELSE IF c.kind = "Service" THEN 2 ELSE 3

\* the place of a position of Reconcile in its order of steps
PlaceOf(pc) ==
    CASE pc = "idle"      -> 0
      [] pc = "rd_get"    -> 1
      [] pc = "rd_create" -> 2
      [] pc = "rd_update" -> 2
      [] pc = "rs_get"    -> 3
      [] pc = "rs_create" -> 4
      [] pc = "us_get"    -> 5
      [] pc = "us_update" -> 6
      [] pc = "done"      -> 7

IsStatusCall(c) == c.verb = "StatusUpdate"

\* C19: the calls of one Reconcile come in the order Deployment, Service,
\* status, at most one of each; a call that is refused or fails is the last
\* one and Reconcile returns its error; a status write is made only after
\* both child steps have returned without error and the Deployment has been
\* read back.  A Reconcile only moves forward through its steps; the parent's
\* stored Status changes only in the status write; and a Reconcile that
\* reaches the projection when no Deployment is stored returns an error,
\* makes no status write and leaves the stored parent as it is.
C19_OrderAndAbort ==
    /\ [] \A w \in Workers :
            LET r == rec[w] IN
            /\ \A i, j \in 1..Len(r.calls) :
                   i < j => StepOf(r.calls[i]) < StepOf(r.calls[j])
            /\ \A i \in 1..Len(r.calls) :
                   r.calls[i].resp # "OK" =>
                      i = Len(r.calls) /\ r.pc = "done" /\ r.err = r.calls[i].resp
            /\ r.err \notin {"none", "nil"} => r.pc = "done"
            /\ (r.pc = "us_update" \/ SelectSeq(r.calls, IsStatusCall) # << >>) =>
                   /\ r.seen.deployment \in {"found", "notfound"}
                   /\ r.seen.service \in {"found", "notfound"}
                   /\ \A i \in 1..Len(r.calls) :
                          r.calls[i].kind # "NginxDeployment" => r.calls[i].resp = "OK"
                   /\ r.nd.status.status # ""
    /\ [][ /\ \A w \in Workers :
                 /\ (rec'[w] # rec[w] /\ rec[w].pc \notin {"idle", "done"}) =>
                        PlaceOf(rec'[w].pc) > PlaceOf(rec[w].pc)
                 /\ (rec'[w] # rec[w] /\ rec[w].pc = "us_get" /\ deployment = NoChild) =>
                        /\ rec'[w].pc = "done"
                        /\ rec'[w].err \in {"NotFound", "Error"}
                        /\ rec'[w].calls = rec[w].calls
                        /\ parent' = parent
           /\ (parent # NoParent /\ parent' # NoParent
                 /\ parent'.status # parent.status) =>
                  \E w \in Workers : rec[w].pc = "us_update" /\ rec'[w].pc = "done"
         ]_vars

\* a Reconcile created the Deployment and found or created the Service; the
\* Deployment was deleted before the projection read it; Reconcile returned
\* not-found without a status write and the stored parent is as it was read
C19_Witness ==
    /\ rec[Reconciler].pc = "done"
    /\ rec[Reconciler].err = "NotFound"
    /\ rec[Reconciler].seen.deployment = "notfound"
    /\ rec[Reconciler].seen.service = "notfound"
    /\ Len(rec[Reconciler].calls) = 2
    /\ rec[Reconciler].calls[1].resp = "OK"
    /\ rec[Reconciler].calls[2].resp = "OK"
    /\ deployment = NoChild
    /\ service # NoChild
    /\ parent = rec[Reconciler].orig

\* this Reconcile found both children, the Deployment with the replicas and
\* image of the Spec it read but exposing another port than that Spec's
SawPortOnlyMismatch(r) ==
    /\ SawConverged(r)
    /\ r.found.spec.containerPort # DefaultFilled(r.orig.spec).port

\* C20: a Reconcile that finds both children and the Deployment differing
\* from the Spec in the port only makes no call for either child, and when it
\* has returned the stored Deployment, unless another actor has deleted it, is
\* the one it found, old port included;
\* the port of a stored Deployment changes only in the accepted update of a
\* Reconcile that found other replicas or another image than its Spec asks
\* for, and then becomes that Spec's port; the port of a stored Service never
\* changes.
C20_PortChangeIgnored ==
    /\ [] \A w \in Workers :
            SawPortOnlyMismatch(rec[w]) =>
               /\ ChildCalls(rec[w]) = << >>
               /\ (rec[w].pc = "done" /\ deployment # NoChild) =>
                     deployment = rec[w].found
    /\ [][ /\ ( /\ deployment # NoChild
                 /\ deployment' # NoChild
                 /\ deployment'.spec.containerPort # deployment.spec.containerPort )
               => \E w \in Workers :
                     /\ rec[w].pc = "rd_update"
                     /\ SawDrift(rec[w])
                     /\ deployment'.spec.containerPort =
                          DefaultFilled(rec[w].orig.spec).port
           /\ (service # NoChild /\ service' # NoChild)
               => service'.spec.port = service.spec.port
         ]_vars

\* after the port of a parent was changed from unset to 8080, replicas and
\* image as before, a Reconcile has returned nil having written the status
\* only; the children it created earlier still expose port 80
C20_Witness ==
    /\ rec[Reconciler].pc = "done"
    /\ rec[Reconciler].err = "nil"
    /\ SawPortOnlyMismatch(rec[Reconciler])
    /\ rec[Reconciler].orig.spec.port = 8080
    /\ Len(rec[Reconciler].calls) = 1
    /\ rec[Reconciler].calls[1].verb = "StatusUpdate"
    /\ deployment # NoChild
    /\ deployment.owner = ParentName
    /\ deployment.spec.containerPort = 80
    /\ deployment.spec.livenessProbe.port = 80
    /\ service # NoChild
    /\ service.owner = ParentName
    /\ service.spec.port = 80

----------------------------------------------------------------------------
(* Properties of the healer *)

\* C15: once a shutdown has been signalled and Run can take no further step,
\* the stop channel given to the informer's controller is closed and Run has
\* returned.
C15_ShutdownStopsRun ==
    (run.signalled /\ ~Running) => (run.stop = "closed" /\ run.pc = "returned")

\* No Ready condition with status True, and a Ready condition with status
\* False whose last transition is more than NotReadyThreshold ago.
NotReadyTooLong(p, t) ==
    /\ ~ \E i \in 1..Len(p.conditions) :
           p.conditions[i].type = "Ready" /\ p.conditions[i].status = "True"
    /\ \E i \in 1..Len(p.conditions) :
           /\ p.conditions[i].type = "Ready"
           /\ p.conditions[i].status = "False"
           /\ t - p.conditions[i].lastTransitionTime > NotReadyThreshold

RestartOver(p) ==
    \E i \in 1..Len(p.containerStatuses) :
        p.containerStatuses[i].restartCount > RestartThreshold

WaitingCrashLoop(p) ==
    \E i \in 1..Len(p.containerStatuses) :
        p.containerStatuses[i].waiting = CrashLoopBackOff

CountsOnlyIncrease(p, q) ==
    /\ Len(q.containerStatuses) >= Len(p.containerStatuses)
    /\ \A i \in 1..Len(p.containerStatuses) :
           q.containerStatuses[i].restartCount >= p.containerStatuses[i].restartCount

Excluded(p) ==
    p.namespace = SystemNamespace \/ IgnoreKey \in DOMAIN p.annotations

\* C3: a handler run for a pod in kube-system, or for a pod carrying the
\* ignore annotation key with any value, issues no delete call, whatever the
\* pod's phase, restart counts, waiting reasons and conditions are.
C3_ExcludedNeverDeleted ==
    (last.handled /\ Excluded(last.obj)) => last.calls = << >>

\* a stuck pod outside kube-system whose ignore annotation has the value
\* "false" has been handled without a call
C3_Witness ==
    /\ last.handled
    /\ last.obj.namespace = "default"
    /\ IgnoreKey \in DOMAIN last.obj.annotations
    /\ last.obj.annotations[IgnoreKey] = "false"
    /\ isPodStuck(last.obj, now)
    /\ last.calls = << >>

\* C4: when the delete call of healPod is answered not-found, because the
\* pod is already gone from the store, healPod returns no error.
C4_NotFoundIsSuccess ==
    (last.handled /\ last.resp = "NotFound") => last.err = "nil"

\* C5 as stated: a classified Pending pod is stuck exactly when its age is
\* strictly greater than the pending threshold, whatever its container
\* statuses and conditions are.
C5_PendingOnlyByAge ==
    (last.handled /\ last.classified /\ last.obj.phase = "Pending")
        => (last.stuck <=> (now - last.obj.created > PendingThreshold))

\* C5 as amended: a classified Pending pod is stuck exactly when its age is
\* strictly greater than the pending threshold, or it has no Ready=True
\* condition and a Ready=False condition older than the not-ready threshold.
C5_PendingVerdict ==
    (last.handled /\ last.classified /\ last.obj.phase = "Pending")
        => (last.stuck <=> \/ now - last.obj.created > PendingThreshold
                           \/ NotReadyTooLong(last.obj, now))

\* a Pending pod aged exactly the threshold, with container statuses and
\* conditions, has been classified not stuck
C5_Witness ==
    /\ last.handled
    /\ last.classified
    /\ last.obj.phase = "Pending"
    /\ now - last.obj.created = PendingThreshold
    /\ last.obj.containerStatuses # << >>
    /\ last.obj.conditions # << >>
    /\ ~last.stuck

\* C6: along the snapshots of a pod that stays Running and whose restart
\* counts only increase, the classifier answers stuck whenever some restart
\* count is above the threshold, answers not stuck while every count is at
\* most the threshold and no other rule applies, and a pod stuck for its
\* restart count is still stuck in the next snapshot.
C6_RestartVerdictMonotone ==
    [][ ( /\ pod # NoPod
          /\ pod' # NoPod
          /\ pod.phase = "Running"
          /\ pod'.phase = "Running"
          /\ CountsOnlyIncrease(pod, pod') )
        => /\ RestartOver(pod') => isPodStuck(pod', now')
           /\ ( ~RestartOver(pod') /\ ~WaitingCrashLoop(pod')
                  /\ ~NotReadyTooLong(pod', now') ) => ~isPodStuck(pod', now')
           /\ (RestartOver(pod) /\ isPodStuck(pod, now)) => isPodStuck(pod', now')
      ]_vars

\* a Running pod with one container at the threshold and one above it has
\* been classified stuck
C6_Witness ==
    /\ last.handled
    /\ last.classified
    /\ last.obj.phase = "Running"
    /\ Len(last.obj.containerStatuses) = 2
    /\ last.obj.containerStatuses[1].restartCount = RestartThreshold
    /\ last.obj.containerStatuses[2].restartCount = RestartThreshold + 1
    /\ last.stuck

\* C7: every handler run ends in one of two outcomes, a single delete call
\* or no call, and a delete call is issued only for a pod snapshot that
\* isPodStuck judges stuck.
C7_DeleteOnlyWhenStuck ==
    last.handled =>
        /\ Len(last.calls) <= 1
        /\ \A i \in 1..Len(last.calls) : last.calls[i].verb = "Delete"
        /\ last.calls # << >> => isPodStuck(last.obj, now)

\* a Running pod with container statuses, not excluded and not stuck, has
\* been handled without a call
C7_Witness ==
    /\ last.handled
    /\ ~Excluded(last.obj)
    /\ last.obj.phase = "Running"
    /\ last.obj.containerStatuses # << >>
    /\ ~isPodStuck(last.obj, now)
    /\ last.calls = << >>

\* C8: for a stuck pod that is not excluded, the action annotation "ignore"
\* gives no call and a nil error; "restart", "delete", any other value and no
\* annotation give one delete call for that pod.
C8_ActionAnnotation ==
    (last.handled /\ last.classified /\ last.stuck) =>
        IF ActionKey \in DOMAIN last.obj.annotations
             /\ last.obj.annotations[ActionKey] = "ignore"
        THEN last.calls = << >> /\ last.err = "nil"
        ELSE last.calls = << DeleteCall(last.obj) >>

\* a stuck pod annotated action=restart has been handled with a delete call
\* that the store accepted
C8_Witness ==
    /\ last.handled
    /\ last.stuck
    /\ ActionKey \in DOMAIN last.obj.annotations
    /\ last.obj.annotations[ActionKey] = "restart"
    /\ last.calls = << DeleteCall(last.obj) >>
    /\ last.resp = "OK"
    /\ pod = NoPod

\* a pod the healer is to delete: outside kube-system, without the ignore
\* annotation, stuck at clock t, and not annotated action=ignore
ToBeDeleted(p, t) ==
    /\ ~Excluded(p)
    /\ isPodStuck(p, t)
    /\ ~(ActionKey \in DOMAIN p.annotations /\ p.annotations[ActionKey] = "ignore")

\* C17: a handler run whose delete call failed with an error other than
\* not-found made that one call and no other (no retry inside the run) and
\* left nothing behind but the returned error; and a pod that is to be deleted
\* does not stay stored and stuck for ever: with resync delivering it again
\* and delete calls accepted in the end, it is deleted unless it stops being
\* stuck.
C17_RetriedByResync ==
    /\ [] ( (last.handled /\ last.resp = "Error") =>
              /\ last.calls = << [verb |-> "Delete", namespace |-> last.obj.namespace,
                                  name |-> last.obj.name] >>
              /\ last.err = "Error"
              /\ event = NoEvent )
    /\ ( (pod # NoPod /\ ToBeDeleted(pod, now))
           ~> (pod = NoPod \/ ~ToBeDeleted(pod, now)) )

\* the delete call for a stuck pod has failed with an error other than
\* not-found; the pod is still stored and still to be deleted, and no
\* notification for it is in flight
C17_Witness ==
    /\ last.handled
    /\ last.resp = "Error"
    /\ pod # NoPod
    /\ pod = last.obj
    /\ ToBeDeleted(pod, now)
    /\ event = NoEvent

\* C18: the handler run for one delivery of a pod that is to be deleted
\* makes exactly one call, a delete addressed to that pod's own namespace and
\* name; whatever pod a handler run is for, it makes at most one call, and a
\* call it makes is such a delete; and the pod the store drops on an accepted
\* delete is that pod.
C18_OneDeletePerDelivery ==
    last.handled =>
        LET own == [verb |-> "Delete", namespace |-> last.obj.namespace,
                    name |-> last.obj.name]
        IN /\ ToBeDeleted(last.obj, now) => last.calls = << own >>
           /\ Len(last.calls) <= 1
           /\ \A i \in 1..Len(last.calls) : last.calls[i] = own
           /\ (last.calls # << >> /\ last.resp = "OK") => pod = NoPod

\* a Running pod in the default namespace without annotations, one container
\* restarted 11 times, has been delivered as an update: one delete call for
\* default/web was made and accepted
C18_Witness ==
    /\ last.handled
    /\ last.obj.namespace = "default"
    /\ last.obj.annotations = NoAnnotations
    /\ last.obj.phase = "Running"
    /\ Len(last.obj.containerStatuses) = 1
    /\ last.obj.containerStatuses[1].restartCount = 11
    /\ last.obj.containerStatuses[1].waiting = NoWaiting
    /\ last.calls = << [verb |-> "Delete", namespace |-> "default", name |-> "web"] >>
    /\ last.resp = "OK"
    /\ pod = NoPod

====
